---- MODULE Spec2Model ----
(***************************************************************************)
(* The orchestration core of the movie orchestrator agent: the step        *)
(* dispatcher (processSteps), the workflow initializer (handleInitStep),   *)
(* the single-delegation handlers (handleStepWithAgent,                    *)
(* handleScriptGeneration), the fan-out handlers                           *)
(* (handleImageGenerationForCharacters, handleVideoGenerationForCharacters)*)
(* with queryAgentWithPrompt, the balance guard (ensureSufficientBalance)  *)
(* and the task validators.  The program is single-threaded: an action is  *)
(* the answer of one external call (or the arrival of one event) followed  *)
(* by the synchronous code that runs up to the next await.                 *)
(***************************************************************************)
EXTENDS Integers, Sequences, FiniteSets, TLC

\* Bounds of the model.
MaxEvents == 3
MaxDelegations == 2
MaxBalance == 1

VARIABLES
  variant,       \* which of the two workflow variants is deployed
  store,         \* the external step store: step_id -> Step
  balance,       \* the external plans: plan -> credits
  handlers,      \* the invocations of the processSteps handler, in arrival order
  calls,         \* per invocation, the external calls it has issued
  guards,        \* the invocations of ensureSufficientBalance, keyed <<handler, delegation>>
  delegations,   \* the delegations (handleStepWithAgent bodies, queryAgentWithPrompt promises)
  events         \* notifications delivered and external calls that threw, so far

vars == <<variant, store, balance, handlers, calls, guards, delegations, events>>

\* The environment may still deliver an event (a step-change event, a task
\* notification, or a failing external call).
Budget == Len(handlers) + events < MaxEvents

Variants == {"image", "video"}

Pending == "Pending"
Completed == "Completed"
Failed == "Failed"

StepNames ==
  {"init", "generateScript", "extractCharacters", "generateImagesForCharacters",
   "generateVideoForCharacters", "doesNotExist"}

\* Texts are sequences of words.
InputQuery == <<"a", "movie", "idea">>
NoOutput == <<>>
InsufficientBalanceOutput ==
  <<"Insufficient", "balance", "and", "failed", "to", "order", "credits.">>
ImageCompletedOutput ==
  <<"Image", "generation", "tasks", "completed", "successfully", "for", "all", "characters.">>
ImageFailedOutput == <<"One", "or", "more", "image", "generation", "tasks", "failed.">>
VideoFailedOutput == <<"One", "or", "more", "video", "generation", "tasks", "failed.">>
TaskErrorOutput == <<"Error", "during", "task", "execution.">>
TaskOutput == <<"the", "task", "output">>

\* The agent name queryAgentWithPrompt puts in its error messages.
AgentName(v) ==
  IF v = "image" THEN <<"Image", "Generator">> ELSE <<"video", "generation", "agent">>

\* error.message of the exceptions a callback can meet: the SyntaxError of
\* JSON.parse, the failure of getTaskWithSteps.
ParseError == <<"Unexpected", "token">>
FetchError == <<"request", "failed">>
\* JSON.stringify(result.data) of a createTask answer that is not 201
CreateErrorData == <<"task", "not", "created">>

ErrorDuringValidationMutant(v, message) ==
  <<"Error", "during", "validation:">> \o message

\* new Error(`Error during validation for ${agentName}: ${error.message}`)
ErrorDuringValidation(v, message) ==
  <<"Error", "during", "validation", "for">> \o AgentName(v) \o <<":">> \o message

\* new Error(`Error creating task for ${agentName}: ${JSON.stringify(result.data)}`)
ErrorCreatingTask(v, data) ==
  <<"Error", "creating", "task", "for">> \o AgentName(v) \o <<":">> \o data

\* new Error(`Error in queryAgentWithPrompt for ${agentName}: ${error.message}`)
ErrorInQueryAgent(v, message) ==
  <<"Error", "in", "queryAgentWithPrompt", "for">> \o AgentName(v) \o <<":">> \o message

\* sub occurs in text as a run of consecutive words
Contains(text, sub) ==
  \E i \in 0..(Len(text) - Len(sub)) : SubSeq(text, i + 1, i + Len(sub)) = sub

NoArtifacts == [set |-> FALSE, artifacts |-> <<>>, prompts |-> <<>>]

Prompts(n) == [i \in 1..n |-> i]

\* The trigger step of a workflow instance, as the external trigger stores it.
TriggerStep(name, present, n) ==
  [step_id |-> 1, task_id |-> 1, predecessor |-> 0, name |-> name, is_last |-> FALSE,
   step_status |-> Pending, input_query |-> InputQuery,
   input_artifacts |-> [present |-> present, prompts |-> Prompts(n)],
   output |-> NoOutput, output_artifacts |-> NoArtifacts]

ApiNames ==
  {"createSteps", "updateStep", "createTask", "orderPlan", "getPlanBalance",
   "getServiceAccessConfig", "getTaskWithSteps"}

NoCalls == [a \in ApiNames |-> 0]

Called(cs, h, api) == [cs EXCEPT ![h][api] = @ + 1]

\* ------------------------------------------------------------------------
\* Routing (the switch of processSteps)

HandlerOfMutant(v, name) ==
  IF name = "init" THEN "init"
  ELSE IF v = "image" /\ name = "generateImagesForCharacters" THEN "fanout"
  ELSE IF v = "video" /\ name = "generateVideoForCharacters" THEN "fanout"
  ELSE "single"

HandlerOf(v, name) ==
  IF name = "init" THEN "init"
  ELSE IF name = "generateScript" THEN "single"
  ELSE IF v = "image" /\ name = "extractCharacters" THEN "single"
  ELSE IF v = "image" /\ name = "generateImagesForCharacters" THEN "fanout"
  ELSE IF v = "video" /\ name = "generateVideoForCharacters" THEN "fanout"
  ELSE "unknown"

IsPendingMutant(step) == TRUE

IsPending(step) == step.step_status = Pending

AgentOf(v, name) ==
  IF name = "generateScript" THEN "SCRIPT_GENERATOR_DID"
  ELSE IF name = "extractCharacters" THEN "CHARACTER_EXTRACTOR_DID"
  ELSE IF v = "image" THEN "IMAGE_GENERATOR_DID"
  ELSE "VIDEO_GENERATOR_DID"

PlanOf(v, kind) ==
  IF v = "image"
  THEN (IF kind = "single" THEN "THIS_PLAN_DID" ELSE "IMAGE_GENERATOR_PLAN_DID")
  ELSE (IF kind = "single" THEN "PLAN_DID" ELSE "VIDEO_GENERATOR_PLAN_DID")

Plans == {"THIS_PLAN_DID", "IMAGE_GENERATOR_PLAN_DID", "PLAN_DID", "VIDEO_GENERATOR_PLAN_DID"}

\* The characters a fan-out handler iterates over.  The image handler takes an
\* absent input_artifacts as the empty list.
Characters(step) ==
  IF step.input_artifacts.present THEN step.input_artifacts.prompts ELSE <<>>

\* ------------------------------------------------------------------------
\* Records

NoWrite == [issued |-> FALSE, step_status |-> Pending, output |-> NoOutput,
            output_artifacts |-> NoArtifacts]

\* updateStep(step.did, {...step, step_status, output[, output_artifacts]})
Write(step, status, output, artifacts) ==
  [issued |-> TRUE, step_status |-> status, output |-> output, output_artifacts |-> artifacts]

StoreWriteMutant(st, s, w) ==
  [k \in DOMAIN st |->
     IF st[k].name = st[s].name
     THEN [st[k] EXCEPT !.step_status = w.step_status, !.output = w.output,
                        !.output_artifacts = w.output_artifacts]
     ELSE st[k]]

\* The effect of an updateStep request on the step store.
StoreWrite(st, s, w) ==
  [st EXCEPT ![s].step_status = w.step_status,
             ![s].output = w.output,
             ![s].output_artifacts = w.output_artifacts]

NewHandler(step, kind, pc) ==
  [step |-> step, kind |-> kind, pc |-> pc, threw |-> FALSE, write |-> NoWrite,
   joined |-> "none",
   request |-> <<>>,         \* the steps submitted with createSteps
   createResult |-> "none"]  \* createResult.status: "none" before createSteps answers

\* A record getTaskWithSteps answers with: data.task.task_status, and whether
\* data.task.output and data.task.output_artifacts are there.
TaskRecords ==
  [task_status : {Completed, Failed}, has_output : BOOLEAN, has_artifacts : BOOLEAN]

\* An updateStep request of a validator: the status written and what of the
\* task record is copied.
ValidatorWrites ==
  [step_status : {Completed, Failed}, has_output : BOOLEAN, has_artifacts : BOOLEAN]

NoAccessConfig == [agent |-> "none", delegation |-> 0]

AccessConfigMutant(agent, d) == [agent |-> agent, delegation |-> 1]

\* The AccessConfig getServiceAccessConfig(agent) answers to delegation d: each
\* answer is a capability of its own.
AccessConfig(agent, d) == [agent |-> agent, delegation |-> d]

NewDelegation(h, item, agent, pc, promise) ==
  [owner |-> h, item |-> item, agent |-> agent, pc |-> pc, promise |-> promise,
   accessConfig |-> NoAccessConfig,   \* the const accessConfig that createTask is given
   value |-> <<>>,
   reason |-> <<>>,          \* the message of the Error the promise was rejected with
   unhandled |-> FALSE,      \* an exception left the notification callback
   ended |-> FALSE,          \* the remote task was reported ended without success
   fetching |-> 0,          \* getTaskWithSteps calls still to answer
   writing |-> <<>>]         \* updateStep requests of the validator still to answer

\* The default of the fourth parameter of ensureSufficientBalance; the
\* three-parameter versions compare with the literal 1.
DefaultCredits == 1

\* The credits a caller asks ensureSufficientBalance for.  handleStepWithAgent,
\* handleScriptGeneration and the image queryAgentWithPrompt pass no fourth
\* argument.  handleVideoGenerationForCharacters passes characters.length, where
\* characters is the object parsed from input_artifacts (it is iterated as
\* characters["prompts"] and spread as {...characters}): an object has no
\* length, the argument is undefined and the default applies.
RequiredCredits(v, kind, characters) == DefaultCredits

NewGuard(plan, required) ==
  [plan |-> plan, required |-> required, pc |-> "getPlanBalance",
   read |-> -1,              \* balanceResult.balance, -1 before getPlanBalance answers
   orderResult |-> "none",   \* orderResult.success: "none" before orderPlan answers
   ret |-> "none",           \* the value returned: "true", "false", or "threw"
   nGetPlanBalance |-> 1, nOrderPlan |-> 0, nUpdateStep |-> 0]

NeedsTopUpMutant(read, required) == read <= required

\* balanceResult.balance < balance
NeedsTopUp(read, required) == read < required

\* A promise settles once: resolve and reject on a settled promise do nothing.
SettleMutant(deleg, outcome, value) ==
  IF deleg.promise = "none" THEN deleg
  ELSE [deleg EXCEPT !.promise = outcome, !.value = value]

Settle(deleg, outcome, value) ==
  IF deleg.promise = "pending"
  THEN [deleg EXCEPT !.promise = outcome, !.value = value]
  ELSE deleg

\* reject(new Error(message))
Reject(deleg, message) ==
  [Settle(deleg, "rejected", <<>>) EXCEPT
     !.reason = IF deleg.promise = "pending" THEN message ELSE @]

\* The delegations a handler invocation owns, in item order.
Owned(ds, h) == {d \in DOMAIN ds : ds[d].owner = h}

\* Promise.all(tasks): rejected as soon as one promise is rejected, fulfilled
\* once every promise is fulfilled.
PromiseAllMutant(ds, h) ==
  IF \E d \in Owned(ds, h) : ds[d].promise = "fulfilled" THEN "fulfilled"
  ELSE IF \E d \in Owned(ds, h) : ds[d].promise = "rejected" THEN "rejected"
  ELSE IF Owned(ds, h) = {} THEN "fulfilled"
  ELSE "pending"

PromiseAll(ds, h) ==
  IF \E d \in Owned(ds, h) : ds[d].promise = "rejected" THEN "rejected"
  ELSE IF \A d \in Owned(ds, h) : ds[d].promise = "fulfilled" THEN "fulfilled"
  ELSE "pending"

AggregateMutant(ds, h) ==
  LET n == Cardinality(Owned(ds, h))
      slot(i) == CHOOSE d \in Owned(ds, h) : ds[d].item = i
  IN [i \in 1..n |-> ds[slot(n + 1 - i)].value]

\* The values of the fulfilled promises, in the order of the tasks array.
Aggregate(ds, h) ==
  LET n == Cardinality(Owned(ds, h))
      slot(i) == CHOOSE d \in Owned(ds, h) : ds[d].item = i
  IN [i \in 1..n |-> ds[slot(i)].value]

\* The updateStep of the try block (every task fulfilled) or of the catch
\* block (a task rejected) of the fan-out handlers.
JoinWrite(v, step, outcome, artifacts) ==
  IF outcome = "fulfilled"
  THEN IF v = "image"
       THEN Write(step, Completed, ImageCompletedOutput,
                  [set |-> TRUE, artifacts |-> artifacts, prompts |-> <<>>])
       ELSE Write(step, Completed, step.input_query,
                  [set |-> TRUE, artifacts |-> artifacts,
                   prompts |-> step.input_artifacts.prompts])
  ELSE Write(step, Failed,
             IF v = "image" THEN ImageFailedOutput ELSE VideoFailedOutput,
             step.output_artifacts)

JoinsNeverMutant(hs, ds, h) == FALSE

JoinsAgainMutant(hs, ds, h) ==
  /\ hs[h].kind = "fanout"
  /\ hs[h].pc \in {"Promise.all", "done"}
  /\ PromiseAll(ds, h) # "pending"

\* The handler is suspended at `await Promise.all(tasks)` and the join settles.
Joins(hs, ds, h) == hs[h].pc = "Promise.all" /\ PromiseAll(ds, h) # "pending"

\* The continuation of `await Promise.all(tasks)`: it runs as soon as the join
\* settles, and issues the updateStep of the try or of the catch block.
JoinHandlers(v, hs, ds) ==
  [h \in DOMAIN hs |->
     IF Joins(hs, ds, h)
     THEN [hs[h] EXCEPT !.pc = "updateStep",
                        !.joined = PromiseAll(ds, h),
                        !.write = JoinWrite(v, hs[h].step, PromiseAll(ds, h),
                                            Aggregate(ds, h))]
     ELSE hs[h]]

JoinCalls(hs, cs, ds) ==
  [h \in DOMAIN cs |->
     IF Joins(hs, ds, h) THEN [cs[h] EXCEPT !["updateStep"] = @ + 1] ELSE cs[h]]

\* ------------------------------------------------------------------------
\* Workflow initializer

\* The successors handleInitStep defines, in chain order.
ChainNames(v) ==
  IF v = "image"
  THEN <<"generateScript", "extractCharacters", "generateImagesForCharacters">>
  ELSE <<"generateScript", "generateVideoForCharacters">>

\* generateStepId(): the k-th id minted by invocation h; ids are unique.
generateStepId(v, h, k) == 1 + (h - 1) * Len(ChainNames(v)) + k

InitStepsMutant(v, h, step) ==
  [k \in 1..Len(ChainNames(v)) |->
     [step_id |-> generateStepId(v, h, k),
      task_id |-> step.task_id,
      predecessor |-> step.step_id,
      name |-> ChainNames(v)[k],
      is_last |-> (k = Len(ChainNames(v)))]]

\* The steps array of handleInitStep.
InitSteps(v, h, step) ==
  [k \in 1..Len(ChainNames(v)) |->
     [step_id |-> generateStepId(v, h, k),
      task_id |-> step.task_id,
      predecessor |-> IF k = 1 THEN step.step_id ELSE generateStepId(v, h, k - 1),
      name |-> ChainNames(v)[k],
      is_last |-> (k = Len(ChainNames(v)))]]

\* A step as the store keeps it once createSteps accepted it.
StoredStep(req) ==
  [step_id |-> req.step_id, task_id |-> req.task_id, predecessor |-> req.predecessor,
   name |-> req.name, is_last |-> req.is_last, step_status |-> Pending,
   input_query |-> InputQuery,
   input_artifacts |-> [present |-> TRUE, prompts |-> Prompts(1)],
   output |-> NoOutput, output_artifacts |-> NoArtifacts]

\* ------------------------------------------------------------------------
\* Initial state: the Pending trigger step of one workflow instance (Init) or
\* of two instances (InstancesInit) in the store; no handler running.

\* The id of the trigger step of a second workflow instance: an id of the
\* step store that no invocation of this core mints.
OtherTrigger(v) == generateStepId(v, MaxEvents + 1, 1)

\* The step store the external trigger leaves behind: the trigger step of one
\* instance, or those of two instances that differ in step_id and task_id.
Instances(v, step, two) ==
  IF two
  THEN (1 :> step) @@
       (OtherTrigger(v) :> [step EXCEPT !.step_id = OtherTrigger(v), !.task_id = 2])
  ELSE (1 :> step)

Start(variants, balances, two) ==
  /\ variant \in variants
  /\ \E name \in StepNames, present \in BOOLEAN, n \in 0..MaxDelegations :
       /\ present = FALSE => n = 0
       /\ HandlerOf(variant, name) # "fanout" => (present = FALSE)
       /\ store = Instances(variant, TriggerStep(name, present, n), two)
  /\ \E b \in balances : balance = [p \in Plans |-> b]
  /\ handlers = <<>>
  /\ calls = <<>>
  /\ guards = <<>>
  /\ delegations = <<>>
  /\ events = 0

Init == Start(Variants, 0..MaxBalance, FALSE)

\* Two instances of the image workflow of stepHandlers.ts, started on plans
\* that were just ordered.
InstancesInit == Start({"image"}, {MaxBalance}, TRUE)

\* ------------------------------------------------------------------------
\* Step dispatcher

\* The delegations a new invocation h starts (or reserves) for its step.
Slots(v, h, step, kind, first) ==
  IF kind = "single"
  THEN <<NewDelegation(h, 1, AgentOf(v, step.name), "notStarted", "none")>>
  ELSE IF kind = "fanout" /\ v = "image"
  THEN [i \in 1..Len(Characters(step)) |->
          NewDelegation(h, i, AgentOf(v, step.name), "ensureSufficientBalance", "pending")]
  ELSE IF kind = "fanout" /\ step.input_artifacts.present
  THEN [i \in 1..Len(Characters(step)) |->
          NewDelegation(h, i, AgentOf(v, step.name), "notStarted", "none")]
  ELSE <<>>

\* The balance checks a new invocation h starts before its first await returns.
StartedGuards(v, h, step, kind, first) ==
  IF kind = "single" \/ (kind = "fanout" /\ v = "video" /\ step.input_artifacts.present)
  THEN (<<h, 0>> :> NewGuard(PlanOf(v, kind), RequiredCredits(v, kind, Characters(step))))
  ELSE IF kind = "fanout" /\ v = "image"
  THEN [g \in {<<h, first + i>> : i \in 1..Len(Characters(step))} |->
          NewGuard(PlanOf(v, kind), DefaultCredits)]
  ELSE <<>>

\* An event {step_id: s} arrives: getStep, the Pending check, the switch on the
\* name and the handler up to its first await.  The store delivers the event of
\* a step only once its predecessor is terminal; it may deliver it again.
processSteps(s) ==
  /\ Budget
  /\ s \in DOMAIN store
  /\ store[s].predecessor \in DOMAIN store =>
       store[store[s].predecessor].step_status # Pending
  /\ LET step == store[s]
         h == Len(handlers) + 1
         kind == IF IsPending(step) THEN HandlerOf(variant, step.name) ELSE "skipped"
         first == Len(delegations)
         slots == Slots(variant, h, step, kind, first)
         started == StartedGuards(variant, h, step, kind, first)
         crash == kind = "fanout" /\ variant = "video" /\ ~step.input_artifacts.present
         pc == IF kind \in {"skipped", "unknown"} THEN "done"
               ELSE IF kind = "init" THEN "createSteps"
               ELSE IF kind = "single" THEN "ensureSufficientBalance"
               ELSE IF variant = "image" THEN "Promise.all"
               ELSE IF crash THEN "crashed"
               ELSE "ensureSufficientBalance"
         hs == Append(handlers,
                      [NewHandler(step, kind, pc) EXCEPT
                         !.threw = crash,
                         !.request = IF kind = "init" THEN InitSteps(variant, h, step)
                                     ELSE <<>>])
         cs == Append(calls, [NoCalls EXCEPT
                 !["createSteps"] = IF kind = "init" THEN 1 ELSE 0,
                 !["getPlanBalance"] = Cardinality(DOMAIN started)])
         ds == delegations \o slots
     IN /\ Len(ds) <= MaxDelegations
        /\ delegations' = ds
        /\ guards' = guards @@ started
        /\ handlers' = JoinHandlers(variant, hs, ds)
        /\ calls' = JoinCalls(hs, cs, ds)
        /\ UNCHANGED <<variant, store, balance, events>>

\* createSteps answers (201 or an error); the handler logs the answer and
\* issues the updateStep that marks the init step Completed.
handleInitStep(h) ==
  /\ h \in DOMAIN handlers
  /\ handlers[h].pc = "createSteps"
  /\ \E created \in BOOLEAN :
       LET step == handlers[h].step
           steps == handlers[h].request
       IN /\ store' = IF created
                      THEN store @@ [id \in {steps[k].step_id : k \in DOMAIN steps} |->
                                       StoredStep(CHOOSE r \in {steps[k] : k \in DOMAIN steps} :
                                                    r.step_id = id)]
                      ELSE store
          /\ handlers' = [handlers EXCEPT ![h].pc = "updateStep",
                            ![h].createResult = IF created THEN "201" ELSE "error",
                            ![h].write = Write(step, Completed, step.input_query,
                                               step.output_artifacts)]
          /\ calls' = Called(calls, h, "updateStep")
  /\ UNCHANGED <<variant, balance, guards, delegations, events>>

\* The store answers the updateStep a handler issued for its own step (the init
\* handler, or the try/catch of a fan-out handler); the handler returns.
updateStep(h) ==
  /\ h \in DOMAIN handlers
  /\ handlers[h].pc = "updateStep"
  /\ store' = StoreWrite(store, handlers[h].step.step_id, handlers[h].write)
  /\ handlers' = [handlers EXCEPT ![h].pc = "done"]
  /\ UNCHANGED <<variant, balance, calls, guards, delegations, events>>

\* ------------------------------------------------------------------------
\* Balance guard

\* The caller of ensureSufficientBalance resumes with its answer ret ("true",
\* "false", or "threw" when getPlanBalance or orderPlan threw).
\*   handleStepWithAgent, handleScriptGeneration, handleVideoGenerationForCharacters
\*   (guard <<h, 0>>): `if (!hasBalance) return`, else the delegations start with
\*   getServiceAccessConfig; an exception leaves the handler.
\*   image queryAgentWithPrompt (guard <<h, d>>): `return resolve([])` on false,
\*   getServiceAccessConfig on true, the outer catch rejects on an exception.
ResumeDelegationsMutant(ds, hs, g, ret) ==
  IF g[2] = 0 /\ ret = "true"
  THEN [x \in DOMAIN ds |->
          IF ds[x].owner = g[1] /\ ds[x].item = 1
          THEN [ds[x] EXCEPT !.pc = "getServiceAccessConfig",
                             !.promise = IF hs[g[1]].kind = "fanout"
                                         THEN "pending" ELSE "none"]
          ELSE ds[x]]
  ELSE ds

ResumeDelegations(ds, hs, g, ret) ==
  LET h == g[1]
      d == g[2]
  IN IF d = 0
     THEN IF ret = "true"
          THEN [x \in DOMAIN ds |->
                  IF ds[x].owner = h
                  THEN [ds[x] EXCEPT !.pc = "getServiceAccessConfig",
                                     !.promise = IF hs[h].kind = "fanout"
                                                 THEN "pending" ELSE "none"]
                  ELSE ds[x]]
          ELSE ds
     ELSE IF ret = "true"
          THEN [ds EXCEPT ![d].pc = "getServiceAccessConfig"]
          ELSE IF ret = "false"
          THEN [ds EXCEPT ![d] = [Settle(@, "fulfilled", <<>>) EXCEPT !.pc = "returned"]]
          ELSE [ds EXCEPT ![d] = [Reject(@, ErrorInQueryAgent(variant, FetchError))
                                    EXCEPT !.pc = "returned"]]

ResumeHandlersMutant(hs, g, ret) ==
  IF g[2] # 0 THEN hs
  ELSE IF ret = "true"
  THEN [hs EXCEPT ![g[1]].pc = IF hs[g[1]].kind = "fanout" THEN "Promise.all"
                               ELSE "delegating"]
  ELSE [hs EXCEPT ![g[1]].pc = "done"]

ResumeHandlers(hs, g, ret) ==
  LET h == g[1]
  IN IF g[2] # 0 THEN hs
     ELSE IF ret = "true"
     THEN [hs EXCEPT ![h].pc = IF hs[h].kind = "fanout" THEN "Promise.all" ELSE "delegating"]
     ELSE IF ret = "false"
     THEN [hs EXCEPT ![h].pc = "done"]
     ELSE [hs EXCEPT ![h].pc = "crashed", ![h].threw = TRUE]

ResumeCalls(cs, ds, g, ret) ==
  LET h == g[1]
  IN IF ret # "true" THEN cs
     ELSE [cs EXCEPT ![h]["getServiceAccessConfig"] =
             @ + (IF g[2] = 0 THEN Cardinality(Owned(ds, h)) ELSE 1)]

Return(g, ret, read, orderResult) ==
  LET ds == ResumeDelegations(delegations, handlers, g, ret)
      hs == ResumeHandlers(handlers, g, ret)
      cs == ResumeCalls(calls, delegations, g, ret)
  IN /\ guards' = [guards EXCEPT ![g].pc = "returned", ![g].ret = ret, ![g].read = read,
                                ![g].orderResult = orderResult]
     /\ delegations' = ds
     /\ handlers' = JoinHandlers(variant, hs, ds)
     /\ calls' = JoinCalls(hs, cs, ds)

\* getPlanBalance answers: the balance is compared with the required credits
\* and orderPlan is called on a shortfall.
getPlanBalance(g) ==
  /\ g \in DOMAIN guards
  /\ guards[g].pc = "getPlanBalance"
  /\ \/ /\ Budget
        /\ events' = events + 1
        /\ Return(g, "threw", guards[g].read, "none")
        /\ UNCHANGED <<variant, store, balance>>
     \/ /\ IF NeedsTopUp(balance[guards[g].plan], guards[g].required)
           THEN /\ guards' = [guards EXCEPT ![g].pc = "orderPlan",
                                            ![g].read = balance[guards[g].plan],
                                            ![g].nOrderPlan = @ + 1]
                /\ calls' = Called(calls, g[1], "orderPlan")
                /\ UNCHANGED <<handlers, delegations>>
           ELSE Return(g, "true", balance[guards[g].plan], "none")
        /\ UNCHANGED <<variant, store, balance, events>>

\* The updateStep ensureSufficientBalance issues when the top-up failed.
GuardFailWriteMutant(step) ==
  Write(step, Failed, NoOutput, step.output_artifacts)

GuardFailWrite(step) ==
  Write(step, Failed, InsufficientBalanceOutput, step.output_artifacts)

TopUpFailedMutant(success) == success

\* !orderResult.success
TopUpFailed(success) == ~success

\* orderPlan answers.  A successful order refills the plan.  On a failed order
\* the guard logs and issues the updateStep that marks the step Failed.
orderPlan(g) ==
  /\ g \in DOMAIN guards
  /\ guards[g].pc = "orderPlan"
  /\ \/ /\ Budget
        /\ events' = events + 1
        /\ Return(g, "threw", guards[g].read, "none")
        /\ UNCHANGED <<variant, store, balance>>
     \/ \E success \in BOOLEAN :
          /\ balance' = IF success THEN [balance EXCEPT ![guards[g].plan] = MaxBalance]
                        ELSE balance
          /\ IF TopUpFailed(success)
             THEN /\ guards' = [guards EXCEPT ![g].pc = "updateStep",
                                   ![g].orderResult = IF success THEN "success" ELSE "failed",
                                   ![g].nUpdateStep = @ + 1]
                  /\ calls' = Called(calls, g[1], "updateStep")
                  /\ UNCHANGED <<handlers, delegations>>
             ELSE Return(g, "true", guards[g].read,
                         IF success THEN "success" ELSE "failed")
          /\ UNCHANGED <<variant, store, events>>

\* The store answers the guard's updateStep; the guard returns false.
ensureSufficientBalance(g) ==
  /\ g \in DOMAIN guards
  /\ guards[g].pc = "updateStep"
  /\ store' = StoreWrite(store, handlers[g[1]].step.step_id,
                         GuardFailWrite(handlers[g[1]].step))
  /\ Return(g, "false", guards[g].read, guards[g].orderResult)
  /\ UNCHANGED <<variant, balance, events>>

\* ------------------------------------------------------------------------
\* Delegation: getServiceAccessConfig, createTask and the notification callback

\* getServiceAccessConfig answers; createTask is called with the callback.
getServiceAccessConfig(d) ==
  /\ d \in DOMAIN delegations
  /\ delegations[d].pc = "getServiceAccessConfig"
  /\ delegations' = [delegations EXCEPT
                       ![d].pc = "createTask",
                       ![d].accessConfig = AccessConfig(delegations[d].agent, d)]
  /\ calls' = Called(calls, delegations[d].owner, "createTask")
  /\ UNCHANGED <<variant, store, balance, handlers, guards, events>>

\* createTask answers 201 or an error.  A created task consumes a credit of the
\* plan.  The single-delegation handlers log the answer and return; the
\* queryAgentWithPrompt promise is rejected when the answer is not 201.
AfterCreateTaskMutant(hdl, created) ==
  IF hdl.kind # "single" THEN hdl
  ELSE IF created THEN [hdl EXCEPT !.pc = "done"]
  ELSE [hdl EXCEPT !.pc = "crashed", !.threw = TRUE]

\* The handler once createTask answered: the single-delegation handlers log the
\* answer, whatever its status, and return.
AfterCreateTask(hdl, created) ==
  IF hdl.kind = "single" THEN [hdl EXCEPT !.pc = "done"] ELSE hdl

createTask(d) ==
  /\ d \in DOMAIN delegations
  /\ delegations[d].pc = "createTask"
  /\ \E created \in BOOLEAN :
       LET h == delegations[d].owner
           plan == PlanOf(variant, handlers[h].kind)
           ds == [delegations EXCEPT ![d] =
                    IF created THEN [@ EXCEPT !.pc = "created"]
                    ELSE [Reject(@, ErrorCreatingTask(variant, CreateErrorData))
                            EXCEPT !.pc = "createFailed"]]
           hs == [handlers EXCEPT ![h] = AfterCreateTask(@, created)]
       IN /\ balance' = IF created /\ balance[plan] > 0
                        THEN [balance EXCEPT ![plan] = @ - 1] ELSE balance
          /\ delegations' = ds
          /\ handlers' = JoinHandlers(variant, hs, ds)
          /\ calls' = JoinCalls(hs, calls, ds)
  /\ UNCHANGED <<variant, store, guards, events>>

\* What a notification payload can be: text that does not parse, a progress
\* log, or the report that the task ended, Failed or Completed.
NotificationKinds == {"malformed", "progress", Failed, Completed}

ValidatesMutant(v, kind, note) == TRUE

\* Whether the callback goes on to validate the task for a parsed notification:
\* on task_status "Completed", and in handleScriptGeneration on every one.
Validates(v, kind, note) ==
  note = Completed \/ (v = "video" /\ kind = "single")

\* The artifacts of the finished remote task of item i.
ArtifactsOf(i) == <<[artifact |-> i]>>

\* The callback of createTask runs for one notification, up to its first await.
\* JSON.parse throws on a malformed payload: queryAgentWithPrompt catches it and
\* rejects, the single-delegation callbacks let it escape.
onNotification(d, note) ==
  /\ d \in DOMAIN delegations
  /\ delegations[d].pc \in {"created", "createFailed"}
  /\ Budget
  /\ events' = events + 1
  /\ LET h == delegations[d].owner
         kind == handlers[h].kind
         fetch == note # "malformed" /\ Validates(variant, kind, note)
         heard == [delegations[d] EXCEPT
                     !.ended = @ \/ (kind = "single" /\ note = Failed)]
         ds == [delegations EXCEPT ![d] =
                  IF fetch THEN [heard EXCEPT !.fetching = @ + 1]
                  ELSE IF note = "malformed"
                  THEN IF kind = "fanout"
                       THEN Reject(heard, ErrorDuringValidation(variant, ParseError))
                       ELSE [heard EXCEPT !.unhandled = TRUE]
                  ELSE heard]
         cs == IF fetch THEN Called(calls, h, "getTaskWithSteps") ELSE calls
     IN /\ delegations' = ds
        /\ handlers' = JoinHandlers(variant, handlers, ds)
        /\ calls' = JoinCalls(handlers, cs, ds)
  /\ UNCHANGED <<variant, store, balance, guards>>

\* What queryAgentWithPrompt does with the answer of validateTaskFn, which is
\* task.output_artifacts: the image variant resolves with it, the video variant
\* with JSON.parse(artifacts)[0], which throws when the task has no artifacts.
ResolutionMutant(v, deleg, task) ==
  IF task.task_status # Completed
  THEN Reject(deleg, ErrorDuringValidation(v, FetchError))
  ELSE Settle(deleg, "fulfilled",
              IF v = "image" THEN ArtifactsOf(deleg.item) ELSE ArtifactsOf(deleg.item)[1])

Resolution(v, deleg, task) ==
  IF v = "image"
  THEN Settle(deleg, "fulfilled",
              IF task.has_artifacts THEN ArtifactsOf(deleg.item) ELSE <<>>)
  ELSE IF task.has_artifacts
  THEN Settle(deleg, "fulfilled", ArtifactsOf(deleg.item)[1])
  ELSE Reject(deleg, ErrorDuringValidation(v, ParseError))

\* What the validator of a single-delegation handler writes for a fetched task:
\* validateGenericTask always writes, validateScriptGenerationTask returns
\* unless the task is Completed.  "none" is no write.
ValidatorStatus(v, task_status) ==
  IF task_status = Completed THEN Completed
  ELSE IF v = "image" THEN Failed
  ELSE "none"

\* getTaskWithSteps answers a validator (with the task record, or it throws).
getTaskWithSteps(d, throws, task) ==
  /\ d \in DOMAIN delegations
  /\ delegations[d].fetching > 0
  /\ throws => Budget
  /\ events' = IF throws THEN events + 1 ELSE events
  /\ LET h == delegations[d].owner
         single == handlers[h].kind = "single"
         fetched == [delegations[d] EXCEPT !.fetching = @ - 1]
         status == ValidatorStatus(variant, task.task_status)
         writes == single /\ ~throws /\ status # "none"
         ds == [delegations EXCEPT ![d] =
                  IF single
                  THEN IF throws THEN [fetched EXCEPT !.unhandled = TRUE]
                       ELSE IF writes
                       THEN [fetched EXCEPT
                               !.ended = @ \/ task.task_status # Completed,
                               !.writing = Append(@,
                                  [step_status |-> status,
                                   has_output |-> task.has_output,
                                   has_artifacts |-> task.has_artifacts])]
                       ELSE [fetched EXCEPT !.ended = @ \/ task.task_status # Completed]
                  ELSE IF throws
                  THEN Reject(fetched, ErrorDuringValidation(variant, FetchError))
                  ELSE Resolution(variant, fetched, task)]
         cs == IF writes THEN Called(calls, h, "updateStep") ELSE calls
     IN /\ delegations' = ds
        /\ handlers' = JoinHandlers(variant, handlers, ds)
        /\ calls' = JoinCalls(handlers, cs, ds)
  /\ UNCHANGED <<variant, store, balance, guards>>

\* The updateStep of validateGenericTask / validateScriptGenerationTask:
\* output: task.output || "Error during task execution.",
\* output_artifacts: task.output_artifacts || [].
ValidatorWrite(step, deleg, w) ==
  Write(step, w.step_status,
        IF w.has_output THEN TaskOutput ELSE TaskErrorOutput,
        [set |-> TRUE,
         artifacts |-> IF w.has_artifacts THEN ArtifactsOf(deleg.item) ELSE <<>>,
         prompts |-> <<>>])

\* seq without its i-th element
Without(seq, i) == SubSeq(seq, 1, i - 1) \o SubSeq(seq, i + 1, Len(seq))

\* The store answers the i-th of the updateStep requests a validator has in
\* flight (the store may answer them in any order).
validateGenericTask(d, i) ==
  /\ d \in DOMAIN delegations
  /\ i \in DOMAIN delegations[d].writing
  /\ store' = StoreWrite(store, handlers[delegations[d].owner].step.step_id,
                         ValidatorWrite(handlers[delegations[d].owner].step,
                                        delegations[d], delegations[d].writing[i]))
  /\ delegations' = [delegations EXCEPT ![d].writing = Without(@, i)]
  /\ UNCHANGED <<variant, balance, handlers, calls, guards, events>>

\* ------------------------------------------------------------------------

Next ==
  \/ \E s \in DOMAIN store : processSteps(s)
  \/ \E h \in DOMAIN handlers : handleInitStep(h)
  \/ \E h \in DOMAIN handlers : updateStep(h)
  \/ \E g \in DOMAIN guards : getPlanBalance(g)
  \/ \E g \in DOMAIN guards : orderPlan(g)
  \/ \E g \in DOMAIN guards : ensureSufficientBalance(g)
  \/ \E d \in DOMAIN delegations : getServiceAccessConfig(d)
  \/ \E d \in DOMAIN delegations : createTask(d)
  \/ \E d \in DOMAIN delegations, note \in NotificationKinds : onNotification(d, note)
  \/ \E d \in DOMAIN delegations, task \in TaskRecords :
       getTaskWithSteps(d, FALSE, task)
  \/ \E d \in DOMAIN delegations :
       getTaskWithSteps(d, TRUE, CHOOSE task \in TaskRecords : TRUE)
  \/ \E d \in DOMAIN delegations :
       \E i \in DOMAIN delegations[d].writing : validateGenericTask(d, i)

Spec == Init /\ [][Next]_vars

\* A created task whose delegation has heard no Completed notification and no
\* payload that made the callback fail.
Waiting(d) ==
  /\ d \in DOMAIN delegations
  /\ delegations[d].pc = "created"
  /\ delegations[d].promise = "pending"
  /\ delegations[d].fetching = 0

\* Every external call the program awaits is answered in the end, and a task
\* that is still waited for delivers its Completed notification as long as the
\* environment delivers events at all.
Fairness ==
  /\ WF_vars(\E h \in DOMAIN handlers : handleInitStep(h))
  /\ WF_vars(\E h \in DOMAIN handlers : updateStep(h))
  /\ WF_vars(\E g \in DOMAIN guards : getPlanBalance(g))
  /\ WF_vars(\E g \in DOMAIN guards : orderPlan(g))
  /\ WF_vars(\E g \in DOMAIN guards : ensureSufficientBalance(g))
  /\ WF_vars(\E d \in DOMAIN delegations : getServiceAccessConfig(d))
  /\ WF_vars(\E d \in DOMAIN delegations : createTask(d))
  /\ WF_vars(\E d \in DOMAIN delegations, throws \in BOOLEAN, task \in TaskRecords :
               getTaskWithSteps(d, throws, task))
  /\ WF_vars(\E d \in DOMAIN delegations :
               \E i \in DOMAIN delegations[d].writing : validateGenericTask(d, i))
  /\ \A d \in 1..MaxDelegations : WF_vars(Waiting(d) /\ onNotification(d, Completed))

\* The image workflow of stepHandlers.ts, started on plans that were just ordered.
FairInit == Start({"image"}, {MaxBalance}, FALSE)

FairSpec == FairInit /\ [][Next]_vars /\ Fairness

\* Two workflow instances run side by side.
InstancesSpec == InstancesInit /\ [][Next]_vars

\* ------------------------------------------------------------------------
\* Helpers of the properties

FanOuts == {h \in DOMAIN handlers : handlers[h].kind = "fanout"}

StepOf(h) == handlers[h].step.step_id

GuardsOf(h) == {g \in DOMAIN guards : g[1] = h}

\* The balance check that stands before delegation d: the one of its handler,
\* or its own in the image queryAgentWithPrompt.
GuardOf(d) ==
  IF <<delegations[d].owner, 0>> \in DOMAIN guards
  THEN <<delegations[d].owner, 0>> ELSE <<delegations[d].owner, d>>

\* createTask has been called for delegation d
Issued(d) == delegations[d].pc \in {"createTask", "created", "createFailed"}

\* ------------------------------------------------------------------------
\* C1: a step's stored status leaves Pending at most once: once a step is
\* Completed or Failed, no updateStep changes its status again.
C1_StatusLeavesPendingOnce ==
  [][\A s \in DOMAIN store :
       store[s].step_status # Pending => store'[s].step_status = store[s].step_status]_vars

\* C2: a dispatch that fetches a step that is not Pending invokes no handler
\* and issues no external call: it starts no balance check and no delegation,
\* and never issues createSteps, createTask, orderPlan or updateStep.
C2_NonPendingDispatchIsNoOp ==
  \A h \in DOMAIN handlers :
    handlers[h].step.step_status # Pending =>
      /\ handlers[h].pc = "done"
      /\ calls[h] = NoCalls
      /\ GuardsOf(h) = {}
      /\ Owned(delegations, h) = {}
      /\ ~handlers[h].write.issued

C2_Witness ==
  \E h \in DOMAIN handlers :
    /\ handlers[h].step.step_status # Pending
    /\ handlers[h].kind = "skipped"
    /\ handlers[h].pc = "done"

\* C3: once the balance guard has returned false for a step, its caller starts
\* no delegation for it and issues no further updateStep: the handler never
\* writes the step itself (in particular never Completed), and the delegation
\* the guard stood before is never started.
C3_GuardFalseIsFinal ==
  \A g \in DOMAIN guards :
    guards[g].ret = "false" =>
      /\ ~handlers[g[1]].write.issued
      /\ calls[g[1]]["updateStep"] =
           Cardinality({x \in GuardsOf(g[1]) : guards[x].nUpdateStep > 0})
      /\ \A d \in Owned(delegations, g[1]) :
           (g[2] = 0 \/ g[2] = d) => delegations[d].pc \in {"notStarted", "returned"}

\* C4: all-or-nothing join.  In a fan-out over N >= 1 items, once a delegation
\* promise is rejected the handler has taken the catch branch: the one
\* updateStep it issues is Failed and carries no aggregated artifacts, and when
\* the store applies it the step is Failed with output_artifacts unset.
C4_AllOrNothingJoin ==
  [][\A h \in DOMAIN handlers' :
       (/\ handlers'[h].kind = "fanout"
        /\ \E d \in Owned(delegations', h) : delegations'[d].promise = "rejected")
       => /\ handlers'[h].joined = "rejected"
          /\ handlers'[h].write.issued
          /\ handlers'[h].write.step_status = Failed
          /\ ~handlers'[h].write.output_artifacts.set
          /\ handlers'[h].pc \in {"updateStep", "done"}
          /\ (h \in DOMAIN handlers /\ handlers[h].pc = "updateStep"
              /\ handlers'[h].pc = "done")
             => /\ store'[StepOf(h)].step_status = Failed
                /\ ~store'[StepOf(h)].output_artifacts.set]_vars

\* one delegation rejected, another one of the same step fulfilled with its
\* artifacts, and the step ended Failed
C4_Witness ==
  \E h \in FanOuts :
    /\ handlers[h].pc = "done"
    /\ \E d \in Owned(delegations, h) : delegations[d].promise = "rejected"
    /\ \E d \in Owned(delegations, h) :
         delegations[d].promise = "fulfilled" /\ delegations[d].value # <<>>
    /\ store[StepOf(h)].step_status = Failed

C6_SingleResolution ==
  [][\A d \in DOMAIN delegations :
       /\ delegations[d].promise \in {"fulfilled", "rejected"} =>
            /\ delegations'[d].promise = delegations[d].promise
            /\ delegations'[d].value = delegations[d].value
       /\ onNotification(d, "progress") =>
            /\ delegations'[d].promise = delegations[d].promise
            /\ delegations'[d].value = delegations[d].value
            /\ handlers[delegations[d].owner].kind = "fanout" =>
                 delegations'[d].fetching = delegations[d].fetching
            /\ handlers' = handlers
       /\ (/\ delegations[d].pc = "created"
           /\ delegations[d].promise = "pending"
           /\ delegations'[d].promise = "fulfilled")
          => /\ delegations[d].fetching > 0
             /\ delegations'[d].fetching = delegations[d].fetching - 1]_vars

\* a promise already fulfilled while the validation started by a further
\* Completed notification of the same task is still to answer
C6_Witness ==
  \E d \in DOMAIN delegations :
    /\ delegations[d].promise = "fulfilled"
    /\ delegations[d].pc = "created"
    /\ delegations[d].fetching > 0

\* C7: a fan-out step over N >= 1 items performs exactly one balance check,
\* before any delegation starts, asking for N credits; when that check fails
\* no createTask is issued for the step.
C7_FanOutGatedOnWidth ==
  \A h \in FanOuts :
    Len(Characters(handlers[h].step)) >= 1 /\ handlers[h].step.input_artifacts.present =>
      /\ GuardsOf(h) = {<<h, 0>>}
      /\ guards[<<h, 0>>].required = Len(Characters(handlers[h].step))
      /\ guards[<<h, 0>>].ret = "false" => calls[h]["createTask"] = 0

\* C8: when the balance read is below the required credits and orderPlan
\* reports success = false, ensureSufficientBalance issues exactly one
\* updateStep (after one getPlanBalance and one orderPlan), which sets the step
\* Failed with an output containing "Insufficient balance"; it returns false
\* and throws nothing.
C8_TopUpFailure ==
  [][\A g \in DOMAIN guards' :
       guards'[g].orderResult = "failed" =>
         /\ guards'[g].read >= 0
         /\ guards'[g].read < guards'[g].required
         /\ guards'[g].nGetPlanBalance = 1
         /\ guards'[g].nOrderPlan = 1
         /\ guards'[g].nUpdateStep = 1
         /\ guards'[g].ret = IF guards'[g].pc = "updateStep" THEN "none" ELSE "false"
         /\ ~handlers'[g[1]].threw
         /\ (g \in DOMAIN guards /\ guards[g].ret = "none" /\ guards'[g].ret = "false")
            => /\ store'[StepOf(g[1])].step_status = Failed
               /\ Contains(store'[StepOf(g[1])].output, <<"Insufficient", "balance">>)]_vars

C8_Witness ==
  \E g \in DOMAIN guards :
    /\ guards[g].orderResult = "failed"
    /\ guards[g].ret = "false"
    /\ store[StepOf(g[1])].step_status = Failed

\* C9: when the balance read is below the required credits and orderPlan
\* reports success, ensureSufficientBalance returns true after exactly one
\* getPlanBalance (no second read) and exactly one orderPlan, and issues no
\* updateStep.
C9_TopUpSuccess ==
  \A g \in DOMAIN guards :
    guards[g].orderResult = "success" =>
      /\ guards[g].read >= 0
      /\ guards[g].read < guards[g].required
      /\ guards[g].pc = "returned"
      /\ guards[g].ret = "true"
      /\ guards[g].nGetPlanBalance = 1
      /\ guards[g].nOrderPlan = 1
      /\ guards[g].nUpdateStep = 0

C9_Witness ==
  \E g \in DOMAIN guards :
    /\ guards[g].orderResult = "success"
    /\ guards[g].ret = "true"
    /\ guards[g].read = 0

\* C10: when the balance read is at least the required credits,
\* ensureSufficientBalance returns true without orderPlan or updateStep, and
\* the step in which it returns changes neither the plan balance nor the step.
C10_SufficientBalance ==
  [][\A g \in DOMAIN guards' :
       guards'[g].read >= guards'[g].required =>
         /\ guards'[g].pc = "returned"
         /\ guards'[g].ret = "true"
         /\ guards'[g].orderResult = "none"
         /\ guards'[g].nGetPlanBalance = 1
         /\ guards'[g].nOrderPlan = 0
         /\ guards'[g].nUpdateStep = 0
         /\ (g \in DOMAIN guards /\ guards[g].ret = "none")
            => (balance' = balance /\ store' = store)]_vars

C10_Witness ==
  \E g \in DOMAIN guards :
    /\ guards[g].read >= guards[g].required
    /\ guards[g].ret = "true"

\* C11: no delegation against an empty plan.  A createTask call is issued for a
\* delegation only when the balance check standing before it read at least the
\* required credits, or read less and was answered success by orderPlan; and
\* every createTask call of a handler belongs to such a delegation.
C11_NoDelegationOnEmptyPlan ==
  /\ \A d \in DOMAIN delegations :
       Issued(d) =>
         /\ GuardOf(d) \in DOMAIN guards
         /\ guards[GuardOf(d)].read >= 0
         /\ \/ guards[GuardOf(d)].read >= guards[GuardOf(d)].required
            \/ guards[GuardOf(d)].orderResult = "success"
  /\ \A h \in DOMAIN handlers :
       calls[h]["createTask"] = Cardinality({d \in Owned(delegations, h) : Issued(d)})

\* a task created although the plan was read empty, after a successful top-up
C11_Witness ==
  \E d \in DOMAIN delegations :
    /\ delegations[d].pc = "created"
    /\ GuardOf(d) \in DOMAIN guards
    /\ guards[GuardOf(d)].read = 0
    /\ guards[GuardOf(d)].orderResult = "success"

\* C12: the outcome of the init step follows the answer of createSteps: the
\* step is written Failed when createSteps answered an error, Completed when
\* it answered 201.
C12_InitOutcomeFollowsStore ==
  \A h \in DOMAIN handlers :
    (handlers[h].kind = "init" /\ handlers[h].createResult # "none") =>
      /\ handlers[h].write.issued
      /\ handlers[h].write.step_status =
           IF handlers[h].createResult = "201" THEN Completed ELSE Failed

\* C13: chain construction.  An init step submits one createSteps request with
\* k successors (3 in the image workflow, 2 in the video workflow) that carry
\* the trigger's task_id, with fresh distinct ids, each one's predecessor being
\* the entry before it (the trigger for the first), is_last on the final entry
\* only; the handler then writes the trigger Completed with its input_query.
C13_ChainConstruction ==
  \A h \in DOMAIN handlers :
    handlers[h].kind = "init" =>
      /\ calls[h]["createSteps"] = 1
      /\ Len(handlers[h].request) = IF variant = "image" THEN 3 ELSE 2
      /\ \A i \in DOMAIN handlers[h].request :
           /\ handlers[h].request[i].task_id = handlers[h].step.task_id
           /\ handlers[h].request[i].step_id # handlers[h].step.step_id
           /\ handlers[h].request[i].predecessor =
                IF i = 1 THEN handlers[h].step.step_id
                ELSE handlers[h].request[i - 1].step_id
           /\ handlers[h].request[i].is_last = (i = Len(handlers[h].request))
           /\ \A j \in DOMAIN handlers[h].request :
                i # j => handlers[h].request[i].step_id # handlers[h].request[j].step_id
      /\ handlers[h].createResult = "201" =>
           \A i \in DOMAIN handlers[h].request :
             /\ handlers[h].request[i].step_id \in DOMAIN store
             /\ store[handlers[h].request[i].step_id].predecessor =
                  handlers[h].request[i].predecessor
      /\ handlers[h].createResult # "none" =>
           /\ calls[h]["updateStep"] = 1
           /\ handlers[h].write.step_status = Completed
           /\ handlers[h].write.output = handlers[h].step.input_query
      /\ handlers[h].pc = "done" =>
           /\ store[StepOf(h)].step_status = Completed
           /\ store[StepOf(h)].output = handlers[h].step.input_query

\* the chain is in the store and the trigger step is Completed
C13_Witness ==
  \E h \in DOMAIN handlers :
    /\ handlers[h].kind = "init"
    /\ handlers[h].createResult = "201"
    /\ handlers[h].pc = "done"
    /\ Cardinality(DOMAIN store) = 1 + Len(handlers[h].request)
    /\ store[StepOf(h)].step_status = Completed

\* C14: unknown-name safety.  The dispatch of a Pending step whose name is no
\* case of the switch returns at once: no external call (no updateStep,
\* createSteps, createTask, orderPlan), no balance check, no delegation, no
\* exception, and the step is still Pending.
C14_UnknownNameSafety ==
  \A h \in DOMAIN handlers :
    (/\ handlers[h].step.step_status = Pending
     /\ handlers[h].step.name \notin
          (IF variant = "image"
           THEN {"init", "generateScript", "extractCharacters",
                 "generateImagesForCharacters"}
           ELSE {"init", "generateScript", "generateVideoForCharacters"}))
    => /\ handlers[h].pc = "done"
       /\ ~handlers[h].threw
       /\ calls[h] = NoCalls
       /\ GuardsOf(h) = {}
       /\ Owned(delegations, h) = {}
       /\ ~handlers[h].write.issued
       /\ store[StepOf(h)].step_status = Pending

C14_Witness ==
  \E h \in DOMAIN handlers :
    /\ handlers[h].step.name = "doesNotExist"
    /\ handlers[h].step.step_status = Pending
    /\ handlers[h].kind = "unknown"
    /\ handlers[h].pc = "done"

\* C15: in a single-delegation step, once the remote task was reported ended
\* without success (a Failed notification, or a fetched task record that is
\* not Completed) and the callback has run to its end, the step is not left
\* Pending.
C15_TaskFailureFailsStep ==
  \A d \in DOMAIN delegations :
    (/\ handlers[delegations[d].owner].kind = "single"
     /\ delegations[d].pc = "created"
     /\ delegations[d].ended
     /\ ~delegations[d].unhandled
     /\ delegations[d].fetching = 0
     /\ delegations[d].writing = <<>>)
    => store[StepOf(delegations[d].owner)].step_status # Pending

\* C16: the validator of a single-delegation step writes the step whenever the
\* task record is fetched: Completed when the task is Completed, Failed for
\* every other status; the write carries the task's output (the error text
\* when there is none) and its output_artifacts (the empty list when there are
\* none).
C16_ValidatorAlwaysWrites ==
  [][\A d \in DOMAIN delegations :
       handlers[delegations[d].owner].kind = "single" =>
         /\ \A task \in TaskRecords :
              getTaskWithSteps(d, FALSE, task) =>
                /\ calls'[delegations[d].owner]["updateStep"] =
                     calls[delegations[d].owner]["updateStep"] + 1
                /\ \E w \in ValidatorWrites :
                     /\ w.step_status =
                          IF task.task_status = Completed THEN Completed ELSE Failed
                     /\ w.has_output = task.has_output
                     /\ w.has_artifacts = task.has_artifacts
                     /\ delegations'[d].writing = Append(delegations[d].writing, w)
         /\ \A i \in DOMAIN delegations[d].writing :
              validateGenericTask(d, i) =>
                /\ store'[StepOf(delegations[d].owner)].step_status =
                     delegations[d].writing[i].step_status
                /\ store'[StepOf(delegations[d].owner)].output =
                     IF delegations[d].writing[i].has_output
                     THEN TaskOutput ELSE TaskErrorOutput
                /\ store'[StepOf(delegations[d].owner)].output_artifacts.artifacts =
                     IF delegations[d].writing[i].has_artifacts
                     THEN ArtifactsOf(delegations[d].item) ELSE <<>>]_vars

\* C17: when createTask answers an error for a fan-out delegation, its promise
\* is rejected with the creation error and stays rejected whatever is notified
\* later; the join has failed, the handler's updateStep is the Failed one, and
\* the step is Failed when the store has applied it.
C17_CreateFailureFailsJoin ==
  [][\A d \in DOMAIN delegations' :
       (/\ handlers'[delegations'[d].owner].kind = "fanout"
        /\ delegations'[d].pc = "createFailed")
       => /\ delegations'[d].promise = "rejected"
          /\ Contains(delegations'[d].reason, <<"Error", "creating", "task">>)
          /\ handlers'[delegations'[d].owner].joined = "rejected"
          /\ handlers'[delegations'[d].owner].write.issued
          /\ handlers'[delegations'[d].owner].write.step_status = Failed
          /\ handlers'[delegations'[d].owner].pc \in {"updateStep", "done"}
          /\ (/\ handlers[delegations'[d].owner].pc = "updateStep"
              /\ handlers'[delegations'[d].owner].pc = "done")
             => store'[StepOf(delegations'[d].owner)].step_status = Failed]_vars

\* the task was not created, a Completed notification for it was validated all
\* the same, and the step ended Failed
C17_Witness ==
  \E d \in DOMAIN delegations :
    /\ handlers[delegations[d].owner].kind = "fanout"
    /\ delegations[d].pc = "createFailed"
    /\ calls[delegations[d].owner]["getTaskWithSteps"] > 0
    /\ delegations[d].fetching = 0
    /\ delegations[d].promise = "rejected"
    /\ handlers[delegations[d].owner].pc = "done"
    /\ store[StepOf(delegations[d].owner)].step_status = Failed

\* The callback of delegation d caught an exception with the given message: no
\* exception leaves the callback or the handler; a pending promise is rejected
\* with an error that holds the message and names the agent, a settled one is
\* left as it is.
Caught(d, message) ==
  /\ delegations'[d].unhandled = delegations[d].unhandled
  /\ handlers'[delegations[d].owner].threw = handlers[delegations[d].owner].threw
  /\ IF delegations[d].promise = "pending"
     THEN /\ delegations'[d].promise = "rejected"
          /\ Contains(delegations'[d].reason, message)
          /\ Contains(delegations'[d].reason, AgentName(variant))
     ELSE /\ delegations'[d].promise = delegations[d].promise
          /\ delegations'[d].reason = delegations[d].reason
          /\ delegations'[d].value = delegations[d].value

\* C18: an exception raised while the callback of a queryAgentWithPrompt
\* delegation processes a notification (a payload that does not parse, a
\* validation fetch that fails, artifacts that do not parse) never leaves the
\* callback: it rejects the delegation's promise with an error that wraps the
\* original message and names the agent.
C18_CallbackExceptionRejects ==
  [][\A d \in DOMAIN delegations :
       handlers[delegations[d].owner].kind = "fanout" =>
         /\ onNotification(d, "malformed") => Caught(d, ParseError)
         /\ getTaskWithSteps(d, TRUE, CHOOSE task \in TaskRecords : TRUE)
              => Caught(d, FetchError)
         /\ (\E task \in TaskRecords :
               /\ variant = "video"
               /\ ~task.has_artifacts
               /\ getTaskWithSteps(d, FALSE, task))
              => Caught(d, ParseError)
         /\ ~delegations[d].unhandled]_vars

\* a promise rejected by the catch of the callback, on a payload that did not
\* parse
C18_Witness ==
  \E d \in DOMAIN delegations :
    /\ handlers[delegations[d].owner].kind = "fanout"
    /\ delegations[d].promise = "rejected"
    /\ Contains(delegations[d].reason, <<"Error", "during", "validation">>)
    /\ Contains(delegations[d].reason, ParseError)
    /\ delegations[d].fetching = 0
    /\ calls[delegations[d].owner]["getTaskWithSteps"] = 0

\* C19: once every delegation of a fan-out over N >= 1 items is fulfilled, the
\* handler has issued its one updateStep, Completed, whose output_artifacts
\* holds N entries, the i-th being the result of the i-th item; the write never
\* changes afterwards, and the step is Completed with these artifacts when the
\* store has applied it.
C19_AggregatedInItemOrder ==
  [][\A h \in DOMAIN handlers' :
       (/\ handlers'[h].kind = "fanout"
        /\ Owned(delegations', h) # {}
        /\ \A d \in Owned(delegations', h) : delegations'[d].promise = "fulfilled")
       => /\ handlers'[h].joined = "fulfilled"
          /\ handlers'[h].write.issued
          /\ handlers'[h].write.step_status = Completed
          /\ handlers'[h].write.output_artifacts.set
          /\ Len(handlers'[h].write.output_artifacts.artifacts) =
               Cardinality(Owned(delegations', h))
          /\ \A d \in Owned(delegations', h) :
               handlers'[h].write.output_artifacts.artifacts[delegations'[d].item] =
                 delegations'[d].value
          /\ calls'[h]["updateStep"] =
               1 + Cardinality({g \in DOMAIN guards' :
                                  g[1] = h /\ guards'[g].nUpdateStep > 0})
          /\ (h \in DOMAIN handlers /\ handlers[h].write.issued)
             => handlers'[h].write = handlers[h].write
          /\ (h \in DOMAIN handlers /\ handlers[h].pc = "updateStep"
              /\ handlers'[h].pc = "done")
             => /\ store'[StepOf(h)].step_status = Completed
                /\ store'[StepOf(h)].output_artifacts = handlers'[h].write.output_artifacts]_vars

\* two items, each fulfilled with the artifacts of its own task, and the step
\* Completed with the two results in item order
C19_Witness ==
  \E h \in FanOuts :
    /\ handlers[h].pc = "done"
    /\ Cardinality(Owned(delegations, h)) = 2
    /\ \A d \in Owned(delegations, h) :
         /\ delegations[d].promise = "fulfilled"
         /\ delegations[d].pc = "created"
         /\ delegations[d].value # <<>>
    /\ store[StepOf(h)].step_status = Completed
    /\ Len(store[StepOf(h)].output_artifacts.artifacts) = 2
    /\ \A i \in 1..2 :
         store[StepOf(h)].output_artifacts.artifacts[i] =
           IF variant = "image" THEN ArtifactsOf(i) ELSE ArtifactsOf(i)[1]

\* C20: in a single-delegation handler, when createTask answers an error the
\* handler only logs it and returns: it throws nothing and issues no
\* updateStep, and as long as no notification of that task is validated no
\* updateStep is issued for the step, which stays Pending unless another
\* dispatch of it writes it.
C20_SingleCreateFailureOnlyLogs ==
  \A d \in DOMAIN delegations :
    (/\ handlers[delegations[d].owner].kind = "single"
     /\ delegations[d].pc = "createFailed")
    => /\ handlers[delegations[d].owner].pc = "done"
       /\ ~handlers[delegations[d].owner].threw
       /\ ~handlers[delegations[d].owner].write.issued
       /\ delegations[d].promise = "none"
       /\ calls[delegations[d].owner]["getTaskWithSteps"] = 0 =>
            /\ calls[delegations[d].owner]["updateStep"] = 0
            /\ delegations[d].writing = <<>>
            /\ (\A h \in DOMAIN handlers :
                  StepOf(h) = StepOf(delegations[d].owner) => h = delegations[d].owner)
               => store[StepOf(delegations[d].owner)].step_status = Pending

C20_Witness ==
  \E d \in DOMAIN delegations :
    /\ handlers[delegations[d].owner].kind = "single"
    /\ delegations[d].pc = "createFailed"
    /\ handlers[delegations[d].owner].pc = "done"
    /\ calls[delegations[d].owner]["updateStep"] = 0
    /\ store[StepOf(delegations[d].owner)].step_status = Pending

C23_TopUpRaceHarmless ==
  [][\A g1, g2 \in DOMAIN guards :
       (/\ g1[1] # g2[1]
        /\ guards[g1].plan = guards[g2].plan
        /\ guards[g1].pc = "orderPlan"
        /\ guards[g2].pc = "orderPlan")
       => /\ guards[g1].read < guards[g1].required
          /\ guards[g1].nOrderPlan = 1
          /\ guards'[g1].orderResult = "success" =>
               /\ guards'[g1].ret = "true"
               /\ guards'[g1].nOrderPlan = 1
               /\ guards'[g1].nUpdateStep = 0
               /\ store' = store
               /\ guards'[g2] = guards[g2]]_vars

\* both guards read the plan empty before either topped it up (no task was
\* created, so nothing consumed the refill), both orders succeeded, both
\* returned true and no step is Failed
C23_Witness ==
  \E g1, g2 \in DOMAIN guards :
    /\ g1[1] # g2[1]
    /\ guards[g1].plan = guards[g2].plan
    /\ guards[g1].read = 0 /\ guards[g2].read = 0
    /\ guards[g1].orderResult = "success" /\ guards[g2].orderResult = "success"
    /\ guards[g1].ret = "true" /\ guards[g2].ret = "true"
    /\ \A d \in DOMAIN delegations : delegations[d].pc \notin {"created", "createFailed"}
    /\ \A s \in DOMAIN store : store[s].step_status # Failed

\* C24: createTask is given the AccessConfig that getServiceAccessConfig
\* answered for the same agent in the same delegation, after the balance check
\* returned true; one getServiceAccessConfig is issued per delegation, and no
\* two delegations use the same AccessConfig.
C24_FreshAccessConfig ==
  /\ \A d \in DOMAIN delegations :
       IF Issued(d)
       THEN /\ delegations[d].accessConfig.agent = delegations[d].agent
            /\ delegations[d].accessConfig.delegation = d
            /\ GuardOf(d) \in DOMAIN guards
            /\ guards[GuardOf(d)].ret = "true"
       ELSE delegations[d].accessConfig = NoAccessConfig
  /\ \A d1, d2 \in DOMAIN delegations :
       (d1 # d2 /\ Issued(d1) /\ Issued(d2))
       => delegations[d1].accessConfig # delegations[d2].accessConfig
  /\ \A h \in DOMAIN handlers :
       calls[h]["getServiceAccessConfig"] =
         Cardinality({d \in Owned(delegations, h) :
                        Issued(d) \/ delegations[d].pc = "getServiceAccessConfig"})

C24_Witness ==
  \E d1, d2 \in DOMAIN delegations :
    /\ d1 # d2
    /\ delegations[d1].pc = "created"
    /\ delegations[d2].pc = "created"
    /\ delegations[d1].agent = delegations[d2].agent
    /\ delegations[d1].accessConfig # delegations[d2].accessConfig

\* C25: in a single-delegation handler the task is validated at most once and
\* the step is written at most once, whatever notifications arrive.
C25_ReactsOnce ==
  \A h \in DOMAIN handlers :
    handlers[h].kind = "single" =>
      /\ calls[h]["getTaskWithSteps"] <= 1
      /\ calls[h]["updateStep"] <= 1

\* The hypotheses of fan-out liveness no longer hold for handler h: the handler
\* threw, a balance guard of it did not pass, a createTask failed, a promise
\* was rejected (a malformed payload, a failed fetch, or in the video workflow a
\* Completed task whose artifacts do not parse), or a task that is still waited
\* for can deliver nothing more.
HypothesisBroken(h) ==
  \/ handlers[h].threw
  \/ \E g \in GuardsOf(h) : guards[g].ret \in {"false", "threw"}
  \/ \E d \in Owned(delegations, h) :
       \/ delegations[d].pc = "createFailed"
       \/ delegations[d].promise = "rejected"
       \/ (Waiting(d) /\ ~Budget)

\* C26: fan-out liveness.  A fan-out handler with at least one item whose
\* guards pass, whose createTask calls succeed and whose tasks each deliver a
\* Completed notification that validates, eventually writes its step Completed.
C26_FanOutLiveness ==
  \A h \in 1..MaxEvents :
    (/\ h \in DOMAIN handlers
     /\ handlers[h].kind = "fanout"
     /\ Owned(delegations, h) # {})
    ~> (/\ h \in DOMAIN handlers
        /\ \/ /\ handlers[h].pc = "done"
              /\ handlers[h].write.issued
              /\ handlers[h].write.step_status = Completed
              /\ store[StepOf(h)].step_status # Pending
           \/ HypothesisBroken(h))

\* two items, both guards passed, both tasks created, two Completed
\* notifications validated, and the step written Completed
C26_Witness ==
  \E h \in FanOuts :
    /\ Cardinality(Owned(delegations, h)) = 2
    /\ ~HypothesisBroken(h)
    /\ events = 2
    /\ calls[h]["createTask"] = 2
    /\ calls[h]["getTaskWithSteps"] = 2
    /\ handlers[h].pc = "done"
    /\ store[StepOf(h)].step_status = Completed

\* C27: the delegations of a fan-out are started together and none waits for a
\* sibling: either all of them have started or none has, a delegation that
\* awaits getServiceAccessConfig, createTask or a validation fetch can take
\* that answer whatever its siblings are doing, and the Completed write of the
\* join holds for each item the result of that item's own task.
C27_DelegationsStartTogether ==
  /\ \A h \in FanOuts : \A d1, d2 \in Owned(delegations, h) :
       (delegations[d1].pc = "notStarted") <=> (delegations[d2].pc = "notStarted")
  /\ \A d \in DOMAIN delegations :
       handlers[delegations[d].owner].kind = "fanout" =>
         /\ delegations[d].pc = "getServiceAccessConfig" => ENABLED getServiceAccessConfig(d)
         /\ delegations[d].pc = "createTask" => ENABLED createTask(d)
         /\ delegations[d].fetching > 0 =>
              ENABLED (\E task \in TaskRecords : getTaskWithSteps(d, FALSE, task))
  /\ \A h \in FanOuts :
       (handlers[h].joined = "fulfilled" /\ Owned(delegations, h) # {}) =>
         /\ handlers[h].write.issued
         /\ handlers[h].write.step_status = Completed
         /\ \A d \in Owned(delegations, h) :
              handlers[h].write.output_artifacts.artifacts[delegations[d].item] =
                delegations[d].value

\* both createTask calls of a fan-out were issued before any notification
\* arrived and before any validation
C27_Witness ==
  \E h \in FanOuts :
    /\ Cardinality(Owned(delegations, h)) = 2
    /\ \A d \in Owned(delegations, h) :
         delegations[d].pc \in {"createTask", "created"} /\ delegations[d].promise = "pending"
    /\ calls[h]["getServiceAccessConfig"] = 2
    /\ calls[h]["createTask"] = 2
    /\ calls[h]["getTaskWithSteps"] = 0
    /\ events = 0

\* C28: after a fan-out handler has written Failed at a rejected join, the
\* notifications and validations of its other delegations change neither the
\* handler nor any step and issue no updateStep; the step stays Failed with
\* output_artifacts unset unless another dispatch of it writes.
C28_NoWriteAfterFailedJoin ==
  [][\A h \in FanOuts :
       (handlers[h].joined = "rejected" /\ handlers[h].pc = "done") =>
         /\ handlers'[h] = handlers[h]
         /\ \A d \in Owned(delegations, h) :
              \/ /\ store' = store
                 /\ calls'[h]["updateStep"] = calls[h]["updateStep"]
              \/ ~(\/ \E note \in NotificationKinds : onNotification(d, note)
                   \/ \E throws \in BOOLEAN, task \in TaskRecords :
                        getTaskWithSteps(d, throws, task))
         /\ (\A k \in DOMAIN handlers : StepOf(k) = StepOf(h) => k = h) =>
              /\ store'[StepOf(h)].step_status = Failed
              /\ ~store'[StepOf(h)].output_artifacts.set]_vars

\* the step is Failed and done while a sibling delegation has settled
\* fulfilled after the join
C28_Witness ==
  \E h \in FanOuts :
    /\ handlers[h].joined = "rejected"
    /\ handlers[h].pc = "done"
    /\ store[StepOf(h)].step_status = Failed
    /\ ~store[StepOf(h)].output_artifacts.set
    /\ calls[h]["updateStep"] = 1
    /\ calls[h]["getTaskWithSteps"] >= 1
    /\ \E d \in Owned(delegations, h) :
         delegations[d].promise = "fulfilled" /\ delegations[d].fetching = 0

\* C29: every write of Failed carries a non-empty output: in the store, in
\* the pending write of a handler and in the pending write of a validator.
C29_FailedHasOutput ==
  /\ \A s \in DOMAIN store :
       store[s].step_status = Failed => Len(store[s].output) > 0
  /\ \A h \in DOMAIN handlers :
       (handlers[h].write.issued /\ handlers[h].write.step_status = Failed)
       => Len(handlers[h].write.output) > 0
  /\ \A d \in DOMAIN delegations : \A i \in DOMAIN delegations[d].writing :
       LET w == ValidatorWrite(handlers[delegations[d].owner].step, delegations[d],
                               delegations[d].writing[i])
       IN w.step_status = Failed => Len(w.output) > 0

\* a step written Failed by the validator with the default output, the task
\* having none
C29_Witness ==
  \E s \in DOMAIN store :
    /\ store[s].step_status = Failed
    /\ store[s].output = TaskErrorOutput

\* A request of handler h that writes its own step is in flight: its own
\* updateStep, the one of a balance guard of it, or the one of its validator.
WritesInFlight(h) ==
  \/ handlers[h].pc = "updateStep"
  \/ \E g \in GuardsOf(h) : guards[g].pc = "updateStep"
  \/ \E d \in Owned(delegations, h) : delegations[d].writing # <<>>

\* C30: no step is deleted; a step that changes is the step of a handler that
\* has an updateStep in flight, keeps its ids and is the only step that
\* changes; a step that appears was submitted by an init handler and carries
\* the task_id of that handler's step, and no stored step changes with it.  So
\* no dispatch of one workflow instance touches a step of another.
C30_InstanceIsolation ==
  [][/\ DOMAIN store \subseteq DOMAIN store'
     /\ \A s \in DOMAIN store :
          store'[s] # store[s] =>
            /\ \E h \in DOMAIN handlers :
                 /\ StepOf(h) = s
                 /\ handlers[h].step.task_id = store[s].task_id
                 /\ WritesInFlight(h)
            /\ store'[s].step_id = store[s].step_id
            /\ store'[s].task_id = store[s].task_id
            /\ store'[s].name = store[s].name
            /\ DOMAIN store' = DOMAIN store
            /\ \A t \in DOMAIN store \ {s} : store'[t] = store[t]
     /\ \A s \in DOMAIN store' \ DOMAIN store :
          /\ \E h \in DOMAIN handlers :
               /\ handlers[h].kind = "init"
               /\ handlers[h].pc = "createSteps"
               /\ store'[s].task_id = handlers[h].step.task_id
               /\ store'[s].step_status = Pending
          /\ \A t \in DOMAIN store : store'[t] = store[t]]_vars

\* handlers of two instances ran side by side: one has written its step, the
\* step of the other instance is still as the trigger stored it
C30_Witness ==
  \E h1, h2 \in DOMAIN handlers :
    /\ handlers[h1].step.task_id # handlers[h2].step.task_id
    /\ handlers[h1].pc = "done"
    /\ handlers[h1].write.issued
    /\ store[StepOf(h1)].step_status # Pending
    /\ handlers[h2].pc # "done"
    /\ store[StepOf(h2)] = handlers[h2].step
    /\ store[StepOf(h2)].step_status = Pending

\* C31: in a single-delegation handler, a notification whose task_status is
\* not Completed causes no step mutation.  Stated for the first event of a
\* task: when the one notification received reported Failed (the task is known
\* ended before any fetch has answered), whatever that callback still awaits
\* issues no updateStep, and the step stays as the handler found it.
C31_NonCompletedCausesNoWrite ==
  [][\A d \in DOMAIN delegations :
       (/\ handlers[delegations[d].owner].kind = "single"
        /\ delegations[d].pc = "created"
        /\ events = 1
        /\ delegations[d].ended
        /\ delegations[d].fetching = calls[delegations[d].owner]["getTaskWithSteps"]
        /\ events' = events)
       => /\ delegations[d].writing = <<>>
          /\ delegations'[d].writing = <<>>
          /\ calls'[delegations[d].owner]["updateStep"] =
               calls[delegations[d].owner]["updateStep"]
          /\ (\A k \in DOMAIN handlers :
                StepOf(k) = StepOf(delegations[d].owner) => k = delegations[d].owner)
             => store'[StepOf(delegations[d].owner)] = handlers[delegations[d].owner].step]_vars

\* C32: a fan-out handler whose item list is empty (input_artifacts absent, or
\* an empty list) starts no delegation and issues no createTask, does not
\* throw and has no balance guard that fails the step, and when it is done it
\* has written Completed with the empty list as output_artifacts.
C32_EmptyFanOutCompletes ==
  \A h \in FanOuts :
    Len(Characters(handlers[h].step)) = 0 =>
      /\ Owned(delegations, h) = {}
      /\ calls[h]["createTask"] = 0
      /\ ~handlers[h].threw
      /\ \A g \in GuardsOf(h) : guards[g].nUpdateStep = 0
      /\ handlers[h].pc \in {"done", "crashed"} =>
           /\ handlers[h].write.issued
           /\ handlers[h].write.step_status = Completed
           /\ handlers[h].write.output_artifacts.set
           /\ handlers[h].write.output_artifacts.artifacts = <<>>
           /\ (\A k \in DOMAIN handlers : StepOf(k) = StepOf(h) => k = h)
              => /\ store[StepOf(h)].step_status = Completed
                 /\ store[StepOf(h)].output_artifacts.artifacts = <<>>

\* C33 (as stated): whenever getPlanBalance or orderPlan threw in a balance
\* check, the fault left the handler: the handler threw, and it issued no
\* updateStep.
C33_FaultPropagates ==
  \A g \in DOMAIN guards :
    guards[g].ret = "threw" =>
      /\ handlers[g[1]].threw
      /\ ~handlers[g[1]].write.issued
      /\ calls[g[1]]["updateStep"] = 0

\* C33 (amended): when getPlanBalance or orderPlan throws in the balance check
\* a handler awaits itself (single delegation, and the up-front check of the
\* video fan-out), the exception leaves the handler: no updateStep is issued,
\* no delegation starts, the step stays as it was, and the throw changes
\* nothing of any other handler, guard or delegation, whose pending requests
\* can still be answered.
C33_GuardFaultPropagates ==
  [][\A g \in DOMAIN guards :
       g[2] = 0 =>
         /\ guards[g].ret = "threw" =>
              /\ handlers[g[1]].pc = "crashed"
              /\ handlers[g[1]].threw
              /\ ~handlers[g[1]].write.issued
              /\ calls[g[1]]["updateStep"] = 0
              /\ guards[g].nUpdateStep = 0
              /\ \A d \in Owned(delegations, g[1]) : delegations[d].pc = "notStarted"
              /\ handlers'[g[1]] = handlers[g[1]]
              /\ (\A k \in DOMAIN handlers : StepOf(k) = StepOf(g[1]) => k = g[1])
                 => store[StepOf(g[1])] = handlers[g[1]].step
              /\ \A k \in DOMAIN handlers \ {g[1]} :
                   handlers[k].pc = "updateStep" => ENABLED updateStep(k)
              /\ \A x \in DOMAIN guards \ {g} :
                   guards[x].pc = "getPlanBalance" => ENABLED getPlanBalance(x)
         /\ (guards[g].ret # "threw" /\ guards'[g].ret = "threw") =>
              /\ handlers'[g[1]].threw
              /\ store' = store
              /\ balance' = balance
              /\ \A k \in DOMAIN handlers \ {g[1]} :
                   handlers'[k] = handlers[k] /\ calls'[k] = calls[k]
              /\ \A x \in DOMAIN guards \ {g} : guards'[x] = guards[x]
              /\ \A d \in DOMAIN delegations :
                   delegations[d].owner # g[1] => delegations'[d] = delegations[d]]_vars

\* a single-delegation handler was left by the exception of its balance check
\* with the step still Pending, and another handler has had its task created
C33_Witness ==
  \E g \in DOMAIN guards :
    /\ g[2] = 0
    /\ guards[g].ret = "threw"
    /\ handlers[g[1]].kind = "single"
    /\ handlers[g[1]].threw
    /\ store[StepOf(g[1])].step_status = Pending
    /\ \E k \in DOMAIN handlers :
         /\ k # g[1]
         /\ calls[k]["createTask"] = 1
         /\ \E d \in Owned(delegations, k) : delegations[d].pc = "created"

====
